---- MODULE Spec2Model ----
(***************************************************************************)
(* Model of pkg/gcr/gcr.go: TrustedGcrRepository, the adapter that forwards *)
(* push / sign / verify / revoke / list to a registry client and a          *)
(* content-trust (Notary/TUF) client.                                        *)
(*                                                                           *)
(* The adapter's methods are translated from gcr.go.  The collaborators     *)
(* they call (pushImage, pushTrustedReference, getTrustedTarget, signImage, *)
(* revokeImage, listTargets, trust.ParseConfig) live in files of the        *)
(* repository that are not part of the source tree at hand; they are        *)
(* modelled from the specification's description of them.                   *)
(***************************************************************************)
EXTENDS Integers, Sequences, FiniteSets, TLC

\* ------------------------------------------------------------------ bounds
NumTags == 2
NumImages == 2

Tags == 1..NumTags
Images == 1..NumImages

\* ------------------------------------------------------------- value space
Nil == "nil"

\* The authenticator objects a caller can hand to the constructor.
Auths == {"authA", "authB"}
NoAuth == "noAuth"

\* Configuration directories: one that parses, one that does not.
ConfigDirs == {"confdir", "baddir"}
NoConfig == [dir |-> "none"]

\* Content digest and byte length of an image (v1.Image.Digest / Size).
Digest(img) == <<"sha256", img>>
Size(img) == 512 * img

\* client.Target: a tag bound to a digest and a length.
Target(tag, img) == [name |-> tag, digest |-> Digest(img), size |-> Size(img)]
NilTarget == [name |-> 0, digest |-> <<"none", 0>>, size |-> 0]

\* []*client.Target: Go distinguishes the nil slice from an empty one.
NilList == [isNil |-> TRUE, items |-> <<>>]
List(items) == [isNil |-> FALSE, items |-> items]

\* The zero value TrustedGcrRepository{}.
ZeroRepo == [ref |-> 0, registryAuth |-> NoAuth, notaryAuth |-> NoAuth, config |-> NoConfig]

NoTrust == [published |-> FALSE, targets |-> [t \in Tags |-> NilTarget]]

VARIABLES
    repo,        \* the adapter value the caller holds (TrustedGcrRepository)
    trust,       \* trust service: published flag and tag -> signed Target
    localInit,   \* a local trust repository was initialized (not published)
    signedAs,    \* history: per tag, image of the last successful push/sign,
                 \* 0 if none yet, -1 if a revoke succeeded since
    last         \* history: the last operation, its collaborator calls,
                 \* its log entries and what it returned; `again` marks a
                 \* successful SignImage that repeats the one just before it

vars == <<repo, trust, localInit, signedAs, last>>

\* ---------------------------------------------------------- collaborators
Call(fn, auth, err) == [fn |-> fn, auth |-> auth, err |-> err]

\* trust.ParseConfig(configDir)
ParseConfig(dir) ==
    IF dir = "confdir"
    THEN [config |-> [dir |-> dir], err |-> Nil]
    ELSE [config |-> NoConfig, err |-> "ConfigError"]

\* pushImage(ref, img, auth): upload the image under the reference.  No
\* adapter method reads the registry back, so its contents are not kept:
\* the calls made to it are (see `last.calls`).
pushImage(ref, img, auth, ok) ==
    IF ok THEN [err |-> Nil] ELSE [err |-> "RegistryPushError"]

\* pushTrustedReference(ref, img, auth, config): publish a Target for the
\* reference's tag with the image's digest and size.
pushTrustedReference(ref, img, auth, config, tr, ok) ==
    IF ok
    THEN [err |-> Nil,
          trust |-> [published |-> TRUE,
                     targets |-> [tr.targets EXCEPT ![ref] = Target(ref, img)]]]
    ELSE [err |-> "TrustPublishError", trust |-> tr]

\* A signImage that, when the tag is already signed, rebuilds the target set
\* from the new entry alone.
signImageResetOthers(ref, img, auth, config, tr, ok) ==
    IF ~ok
    THEN [err |-> "SigningError", trust |-> tr]
    ELSE IF tr.targets[ref] = NilTarget
    THEN [err |-> Nil,
          trust |-> [published |-> TRUE,
                     targets |-> [tr.targets EXCEPT ![ref] = Target(ref, img)]]]
    ELSE [err |-> Nil,
          trust |-> [published |-> TRUE,
                     targets |-> [t \in Tags |-> IF t = ref THEN Target(ref, img)
                                                          ELSE NilTarget]]]

\* signImage(ref, img, auth, config): add or update the Target of the tag.
signImage(ref, img, auth, config, tr, ok) ==
    IF ok
    THEN [err |-> Nil,
          trust |-> [published |-> TRUE,
                     targets |-> [tr.targets EXCEPT ![ref] = Target(ref, img)]]]
    ELSE [err |-> "SigningError", trust |-> tr]

\* revokeImage(ref, tag, auth, config): remove the Target of `tag` and
\* re-sign the rest.
revokeImage(ref, tag, auth, config, tr, ok) ==
    IF tr.targets[tag] = NilTarget
    THEN [err |-> "NotTrusted", trust |-> tr]
    ELSE IF ~ok
    THEN [err |-> "SigningError", trust |-> tr]
    ELSE [err |-> Nil, trust |-> [tr EXCEPT !.targets[tag] = NilTarget]]

RECURSIVE TargetsFrom(_, _)
TargetsFrom(targets, t) ==
    IF t > NumTags
    THEN <<>>
    ELSE (IF targets[t] = NilTarget THEN <<>> ELSE <<targets[t]>>)
         \o TargetsFrom(targets, t + 1)

\* listTargets(ref, auth, config).  `partial`: whether a failing call hands
\* back a non-nil slice next to its error.
listTargets(ref, auth, config, tr, ok, partial) ==
    IF ~ok
    THEN [targets |-> IF partial THEN List(<<>>) ELSE NilList, err |-> "TrustUnavailable"]
    ELSE IF ~tr.published
    THEN [targets |-> IF partial THEN List(<<>>) ELSE NilList, err |-> "NoTrustData"]
    ELSE [targets |-> List(TargetsFrom(tr.targets, 1)), err |-> Nil]

\* getTrustedTarget(ref, auth, config).  `partial`: whether a failing call
\* hands back a non-nil Target next to its error.
getTrustedTarget(ref, auth, config, tr, ok, partial) ==
    IF ~ok
    THEN [target |-> IF partial THEN Target(ref, 0) ELSE NilTarget, err |-> "TrustUnavailable"]
    ELSE IF tr.targets[ref] = NilTarget
    THEN [target |-> IF partial THEN Target(ref, 0) ELSE NilTarget, err |-> "NotTrusted"]
    ELSE [target |-> tr.targets[ref], err |-> Nil]

\* ------------------------------------------------------- adapter methods
\* What one call of a method does: the collaborator calls it made, the log
\* entries it wrote, what it returned, and the trust metadata after.
Outcome(calls, logs, err, target, list, tr) ==
    [calls |-> calls, logs |-> logs, err |-> err, target |-> target,
     list |-> list, trust |-> tr]

\* NewTrustedGcrRepository(configDir, ref, registryAuth, notaryAuth)
NewRun(dir, ref, registryAuth, notaryAuth) ==
    LET c == ParseConfig(dir) IN
    IF c.err # Nil
    THEN [repo |-> ZeroRepo, err |-> c.err,
          calls |-> <<Call("ParseConfig", NoAuth, c.err)>>,
          logs |-> <<"failed to parse config">>]
    ELSE [repo |-> [ref |-> ref, registryAuth |-> registryAuth,
                    notaryAuth |-> notaryAuth, config |-> c.config],
          err |-> Nil,
          calls |-> <<Call("ParseConfig", NoAuth, Nil)>>,
          logs |-> <<>>]

\* A ListTarget that hands back the collaborator's slice next to the error.
ListTargetRunKeep(r, tr, ok, partial) ==
    LET c == listTargets(r.ref, r.notaryAuth, r.config, tr, ok, partial) IN
    IF c.err # Nil
    THEN Outcome(<<Call("listTargets", r.notaryAuth, c.err)>>,
                 <<"failed to list targets">>, c.err, NilTarget, c.targets, tr)
    ELSE Outcome(<<Call("listTargets", r.notaryAuth, Nil)>>,
                 <<>>, Nil, NilTarget, c.targets, tr)

\* (repo *TrustedGcrRepository) ListTarget()
ListTargetRun(r, tr, ok, partial) ==
    LET c == listTargets(r.ref, r.notaryAuth, r.config, tr, ok, partial) IN
    IF c.err # Nil
    THEN Outcome(<<Call("listTargets", r.notaryAuth, c.err)>>,
                 <<"failed to list targets">>, c.err, NilTarget, NilList, tr)
    ELSE Outcome(<<Call("listTargets", r.notaryAuth, Nil)>>,
                 <<>>, Nil, NilTarget, c.targets, tr)

\* A TrustPush that publishes trust data whatever the upload returned.
TrustPushRunNoGate(r, img, tr, regOk, trustOk) ==
    LET a == pushImage(r.ref, img, r.registryAuth, regOk)
        b == pushTrustedReference(r.ref, img, r.notaryAuth, r.config, tr, trustOk) IN
    Outcome(<<Call("pushImage", r.registryAuth, a.err),
              Call("pushTrustedReference", r.notaryAuth, b.err)>>,
            IF a.err # Nil THEN <<"failed to push image">> ELSE <<>>,
            IF a.err # Nil THEN a.err ELSE b.err, NilTarget, NilList, b.trust)

\* A TrustPush that deletes the uploaded image when publishing fails.
TrustPushRunRollback(r, img, tr, regOk, trustOk) ==
    LET a == pushImage(r.ref, img, r.registryAuth, regOk) IN
    IF a.err # Nil
    THEN Outcome(<<Call("pushImage", r.registryAuth, a.err)>>,
                 <<"failed to push image">>, a.err, NilTarget, NilList, tr)
    ELSE LET b == pushTrustedReference(r.ref, img, r.notaryAuth, r.config, tr, trustOk) IN
         IF b.err # Nil
         THEN Outcome(<<Call("pushImage", r.registryAuth, Nil),
                        Call("pushTrustedReference", r.notaryAuth, b.err),
                        Call("deleteImage", r.registryAuth, Nil)>>,
                      <<>>, b.err, NilTarget, NilList, b.trust)
         ELSE Outcome(<<Call("pushImage", r.registryAuth, Nil),
                        Call("pushTrustedReference", r.notaryAuth, Nil)>>,
                      <<>>, Nil, NilTarget, NilList, b.trust)

\* A TrustPush that reports success once the upload went through.
TrustPushRunSwallow(r, img, tr, regOk, trustOk) ==
    LET a == pushImage(r.ref, img, r.registryAuth, regOk) IN
    IF a.err # Nil
    THEN Outcome(<<Call("pushImage", r.registryAuth, a.err)>>,
                 <<"failed to push image">>, a.err, NilTarget, NilList, tr)
    ELSE LET b == pushTrustedReference(r.ref, img, r.notaryAuth, r.config, tr, trustOk) IN
         Outcome(<<Call("pushImage", r.registryAuth, Nil),
                   Call("pushTrustedReference", r.notaryAuth, b.err)>>,
                 <<>>, Nil, NilTarget, NilList, b.trust)

\* A TrustPush that uploads with the trust-service credential.
TrustPushRunSwapAuth(r, img, tr, regOk, trustOk) ==
    LET a == pushImage(r.ref, img, r.notaryAuth, regOk) IN
    IF a.err # Nil
    THEN Outcome(<<Call("pushImage", r.notaryAuth, a.err)>>,
                 <<"failed to push image">>, a.err, NilTarget, NilList, tr)
    ELSE LET b == pushTrustedReference(r.ref, img, r.notaryAuth, r.config, tr, trustOk) IN
         Outcome(<<Call("pushImage", r.notaryAuth, Nil),
                   Call("pushTrustedReference", r.notaryAuth, b.err)>>,
                 <<>>, b.err, NilTarget, NilList, b.trust)

\* A TrustPush that tries the upload a second time when it fails.
TrustPushRunRetry(r, img, tr, regOk, trustOk) ==
    LET a == pushImage(r.ref, img, r.registryAuth, regOk) IN
    IF a.err # Nil
    THEN Outcome(<<Call("pushImage", r.registryAuth, a.err),
                   Call("pushImage", r.registryAuth, a.err)>>,
                 <<"failed to push image">>, a.err, NilTarget, NilList, tr)
    ELSE LET b == pushTrustedReference(r.ref, img, r.notaryAuth, r.config, tr, trustOk) IN
         Outcome(<<Call("pushImage", r.registryAuth, Nil),
                   Call("pushTrustedReference", r.notaryAuth, b.err)>>,
                 <<>>, b.err, NilTarget, NilList, b.trust)

\* (repo *TrustedGcrRepository) TrustPush(img)
TrustPushRun(r, img, tr, regOk, trustOk) ==
    LET a == pushImage(r.ref, img, r.registryAuth, regOk) IN
    IF a.err # Nil
    THEN Outcome(<<Call("pushImage", r.registryAuth, a.err)>>,
                 <<"failed to push image">>, a.err, NilTarget, NilList, tr)
    ELSE LET b == pushTrustedReference(r.ref, img, r.notaryAuth, r.config, tr, trustOk) IN
         Outcome(<<Call("pushImage", r.registryAuth, Nil),
                   Call("pushTrustedReference", r.notaryAuth, b.err)>>,
                 <<>>, b.err, NilTarget, NilList, b.trust)

\* (repo *TrustedGcrRepository) Verify()
VerifyRun(r, tr, ok, partial) ==
    LET c == getTrustedTarget(r.ref, r.notaryAuth, r.config, tr, ok, partial) IN
    IF c.err # Nil
    THEN Outcome(<<Call("getTrustedTarget", r.notaryAuth, c.err)>>,
                 <<"failed to verify repository">>, c.err, NilTarget, NilList, tr)
    ELSE Outcome(<<Call("getTrustedTarget", r.notaryAuth, Nil)>>,
                 <<>>, Nil, c.target, NilList, tr)

\* A SignImage that logs the failure and still returns nil.
SignImageRunSwallow(r, img, tr, ok) ==
    LET c == signImage(r.ref, img, r.notaryAuth, r.config, tr, ok) IN
    IF c.err # Nil
    THEN Outcome(<<Call("signImage", r.notaryAuth, c.err)>>,
                 <<"failed to sign image">>, Nil, NilTarget, NilList, c.trust)
    ELSE Outcome(<<Call("signImage", r.notaryAuth, Nil)>>,
                 <<>>, Nil, NilTarget, NilList, c.trust)

\* (repo *TrustedGcrRepository) SignImage(img)
SignImageRun(r, img, tr, ok) ==
    LET c == signImage(r.ref, img, r.notaryAuth, r.config, tr, ok) IN
    IF c.err # Nil
    THEN Outcome(<<Call("signImage", r.notaryAuth, c.err)>>,
                 <<"failed to sign image">>, c.err, NilTarget, NilList, c.trust)
    ELSE Outcome(<<Call("signImage", r.notaryAuth, Nil)>>,
                 <<>>, Nil, NilTarget, NilList, c.trust)

\* A RevokeTag that revokes the adapter's own reference, not the tag given.
RevokeTagRunOwnRef(r, tag, tr, ok) ==
    LET c == revokeImage(r.ref, r.ref, r.notaryAuth, r.config, tr, ok) IN
    IF c.err # Nil
    THEN Outcome(<<Call("revokeImage", r.notaryAuth, c.err)>>,
                 <<"failed to revoke trusted repository">>, c.err, NilTarget, NilList, c.trust)
    ELSE Outcome(<<Call("revokeImage", r.notaryAuth, Nil)>>,
                 <<>>, Nil, NilTarget, NilList, c.trust)

\* (repo *TrustedGcrRepository) RevokeTag(tag)
RevokeTagRun(r, tag, tr, ok) ==
    LET c == revokeImage(r.ref, tag, r.notaryAuth, r.config, tr, ok) IN
    IF c.err # Nil
    THEN Outcome(<<Call("revokeImage", r.notaryAuth, c.err)>>,
                 <<"failed to revoke trusted repository">>, c.err, NilTarget, NilList, c.trust)
    ELSE Outcome(<<Call("revokeImage", r.notaryAuth, Nil)>>,
                 <<>>, Nil, NilTarget, NilList, c.trust)

\* ------------------------------------------------------------ the machine
Last(op, img, tag, again, o) ==
    [op |-> op, img |-> img, tag |-> tag, regArg |-> NoAuth, notaryArg |-> NoAuth,
     again |-> again, calls |-> o.calls, logs |-> o.logs, err |-> o.err,
     target |-> o.target, list |-> o.list]

Constructed == repo.config # NoConfig

Init ==
    /\ repo = ZeroRepo
    /\ trust = NoTrust
    /\ localInit = FALSE
    /\ signedAs = [t \in Tags |-> 0]
    /\ last = [op |-> "none", img |-> 0, tag |-> 0, regArg |-> NoAuth,
               notaryArg |-> NoAuth, again |-> FALSE, calls |-> <<>>, logs |-> <<>>, err |-> Nil,
               target |-> NilTarget, list |-> NilList]

\* The caller builds an adapter and keeps what the constructor returned.
New(dir, ref, registryAuth, notaryAuth) ==
    LET o == NewRun(dir, ref, registryAuth, notaryAuth) IN
    /\ repo' = o.repo
    /\ last' = [op |-> "New", img |-> 0, tag |-> ref, regArg |-> registryAuth,
                notaryArg |-> notaryAuth, again |-> FALSE, calls |-> o.calls, logs |-> o.logs,
                err |-> o.err, target |-> NilTarget, list |-> NilList]
    /\ UNCHANGED <<trust, localInit, signedAs>>

\* The test's initializeRepo: a local trust repository is initialized,
\* nothing is published to the trust service.
InitializeRepo ==
    /\ ~localInit
    /\ localInit' = TRUE
    /\ last' = [op |-> "Initialize", img |-> 0, tag |-> 0, regArg |-> NoAuth,
                notaryArg |-> NoAuth, again |-> FALSE, calls |-> <<>>, logs |-> <<>>, err |-> Nil,
                target |-> NilTarget, list |-> NilList]
    /\ UNCHANGED <<repo, trust, signedAs>>

ListTarget(ok, partial) ==
    LET o == ListTargetRun(repo, trust, ok, partial) IN
    /\ Constructed
    /\ trust' = o.trust
    /\ last' = Last("ListTarget", 0, 0, FALSE, o)
    /\ UNCHANGED <<repo, localInit, signedAs>>

TrustPush(img, regOk, trustOk) ==
    LET o == TrustPushRun(repo, img, trust, regOk, trustOk) IN
    /\ Constructed
    /\ trust' = o.trust
    /\ signedAs' = IF o.err = Nil THEN [signedAs EXCEPT ![repo.ref] = img] ELSE signedAs
    /\ last' = Last("TrustPush", img, 0, FALSE, o)
    /\ UNCHANGED <<repo, localInit>>

Verify(ok, partial) ==
    LET o == VerifyRun(repo, trust, ok, partial) IN
    /\ Constructed
    /\ trust' = o.trust
    /\ last' = Last("Verify", 0, 0, FALSE, o)
    /\ UNCHANGED <<repo, localInit, signedAs>>

SignImage(img, ok) ==
    LET o == SignImageRun(repo, img, trust, ok) IN
    /\ Constructed
    /\ trust' = o.trust
    /\ signedAs' = IF o.err = Nil THEN [signedAs EXCEPT ![repo.ref] = img] ELSE signedAs
    /\ last' = Last("SignImage", img, 0,
                     o.err = Nil /\ last.op = "SignImage" /\ last.err = Nil /\ last.img = img, o)
    /\ UNCHANGED <<repo, localInit>>

RevokeTag(tag, ok) ==
    LET o == RevokeTagRun(repo, tag, trust, ok) IN
    /\ Constructed
    /\ trust' = o.trust
    /\ signedAs' = IF o.err = Nil THEN [signedAs EXCEPT ![tag] = -1] ELSE signedAs
    /\ last' = Last("RevokeTag", 0, tag, FALSE, o)
    /\ UNCHANGED <<repo, localInit>>

Next ==
    \/ \E dir \in ConfigDirs, ref \in Tags, ra \in Auths, na \in Auths : New(dir, ref, ra, na)
    \/ InitializeRepo
    \/ \E ok \in BOOLEAN, partial \in BOOLEAN : ListTarget(ok, partial)
    \/ \E img \in Images, regOk \in BOOLEAN, trustOk \in BOOLEAN : TrustPush(img, regOk, trustOk)
    \/ \E ok \in BOOLEAN, partial \in BOOLEAN : Verify(ok, partial)
    \/ \E img \in Images, ok \in BOOLEAN : SignImage(img, ok)
    \/ \E tag \in Tags, ok \in BOOLEAN : RevokeTag(tag, ok)

Spec == Init /\ [][Next]_vars

\* ------------------------------------------------------------- properties
AdapterOps == {"ListTarget", "TrustPush", "Verify", "SignImage", "RevokeTag"}
AllOps == AdapterOps \cup {"New"}
RegistryFns == {"pushImage", "deleteImage"}
TrustFns == {"listTargets", "pushTrustedReference", "getTrustedTarget",
             "signImage", "revokeImage"}

Failed(calls) == {i \in DOMAIN calls : calls[i].err # Nil}
CallsTo(calls, fns) == {i \in DOMAIN calls : calls[i].fn \in fns}

\* The one trust-service function each single-call method forwards to.
ForwardsTo(op) ==
    CASE op = "ListTarget" -> "listTargets"
      [] op = "Verify" -> "getTrustedTarget"
      [] op = "SignImage" -> "signImage"
      [] op = "RevokeTag" -> "revokeImage"
      [] OTHER -> "none"

\* C1: a TrustPush whose registry upload fails makes no trust-service call,
\* leaves the trust metadata as it was and returns the registry's error.
C1_FailedUploadSkipsTrust ==
    [][(last'.op = "TrustPush" /\ last'.calls[1].err # Nil)
         => /\ last'.calls[1].fn = "pushImage"
            /\ CallsTo(last'.calls, TrustFns) = {}
            /\ trust' = trust
            /\ last'.err = last'.calls[1].err]_vars

C1_Witness ==
    /\ last.op = "TrustPush"
    /\ last.calls[1].err = "RegistryPushError"
    /\ last.err = "RegistryPushError"

\* C2: a TrustPush whose upload succeeds and whose trust publish fails
\* returns the publish error, issues nothing more to the registry after the
\* upload, and adds no Target to the trust metadata.
C2_PublishFailureReported ==
    [][(/\ last'.op = "TrustPush"
        /\ Len(last'.calls) >= 2
        /\ last'.calls[1].err = Nil
        /\ last'.calls[2].fn = "pushTrustedReference"
        /\ last'.calls[2].err # Nil)
         => /\ last'.err = last'.calls[2].err
            /\ last'.err # Nil
            /\ CallsTo(last'.calls, RegistryFns) = {1}
            /\ last'.calls[1].fn = "pushImage"
            /\ trust'.targets = trust.targets]_vars

C2_Witness ==
    /\ last.op = "TrustPush"
    /\ Len(last.calls) = 2
    /\ last.calls[1] = Call("pushImage", repo.registryAuth, Nil)
    /\ last.calls[2].err = "TrustPublishError"
    /\ last.err = "TrustPublishError"
    /\ trust.targets[repo.ref] = NilTarget

\* C3 as stated: after a successful TrustPush or SignImage of image I under
\* tag t, with no revoke or re-sign of t since, Verify on an adapter bound to
\* t returns the Target {t, digest(I), size(I)}.
C3_VerifyReturnsSignedTarget ==
    (last.op = "Verify" /\ signedAs[repo.ref] > 0)
        => /\ last.err = Nil
           /\ last.target = Target(repo.ref, signedAs[repo.ref])

\* C3 amended: in that situation Verify returns the Target {t, digest(I),
\* size(I)} with a nil error, unless the trust service cannot be reached,
\* when it returns no Target and the TrustUnavailable error.
C3_VerifyReturnsSignedTargetOrUnavailable ==
    (last.op = "Verify" /\ signedAs[repo.ref] > 0)
        => \/ /\ last.err = Nil
              /\ last.target = Target(repo.ref, signedAs[repo.ref])
              /\ last.target.name = repo.ref
              /\ last.target.digest = Digest(signedAs[repo.ref])
              /\ last.target.size = Size(signedAs[repo.ref])
           \/ /\ last.err = "TrustUnavailable"
              /\ last.target = NilTarget

C3_Witness ==
    /\ last.op = "Verify"
    /\ signedAs[repo.ref] = NumImages
    /\ last.err = Nil
    /\ last.target = Target(repo.ref, NumImages)

\* C4 as stated: after a successful RevokeTag(t), until t is signed or pushed
\* again, every Verify on an adapter bound to t fails with NotTrusted and
\* returns no Target.
C4_VerifyAfterRevokeNotTrusted ==
    (last.op = "Verify" /\ signedAs[repo.ref] = -1)
        => /\ last.err = "NotTrusted"
           /\ last.target = NilTarget

\* C4 amended: in that situation every Verify fails and returns no Target;
\* the error is NotTrusted, or TrustUnavailable when the trust service
\* cannot be reached.
C4_VerifyAfterRevokeFails ==
    (last.op = "Verify" /\ signedAs[repo.ref] = -1)
        => /\ last.err \in {"NotTrusted", "TrustUnavailable"}
           /\ last.target = NilTarget

C4_Witness ==
    /\ last.op = "Verify"
    /\ signedAs[repo.ref] = -1
    /\ last.err = "NotTrusted"
    /\ trust.published

\* C5 as stated: ListTarget on a repository with no published trust metadata
\* returns the NoTrustData error and a nil list.
C5_ListUnpublishedNoTrustData ==
    (last.op = "ListTarget" /\ ~trust.published)
        => /\ last.err = "NoTrustData"
           /\ last.list = NilList

\* C5 amended: ListTarget on a repository with no published trust metadata
\* (initialized locally or not) returns a non-nil error and a nil list, never
\* an empty success; the error is NoTrustData, or TrustUnavailable when the
\* trust service cannot be reached.
C5_ListUnpublishedFails ==
    (last.op = "ListTarget" /\ ~trust.published)
        => /\ last.err \in {"NoTrustData", "TrustUnavailable"}
           /\ last.list = NilList

C5_Witness ==
    /\ last.op = "ListTarget"
    /\ ~trust.published
    /\ localInit
    /\ last.err = "NoTrustData"

\* C6: a successful SignImage(I) that follows a successful SignImage(I) on
\* the same adapter leaves every Target, that of the tag and those of the
\* other tags, as the first call left it.
C6_SignIdempotent ==
    [][last'.again => trust' = trust]_vars

C6_Witness ==
    /\ last.again
    /\ trust.targets[repo.ref] = Target(repo.ref, last.img)
    /\ \E t \in Tags : t # repo.ref /\ trust.targets[t] # NilTarget

\* C7: every operation returns nil exactly when every collaborator call it
\* made returned nil, returns the failing call's error otherwise, and
\* ListTarget and Verify return a nil result next to an error.
C7_NoErrorSwallowed ==
    last.op \in AllOps
        => /\ (last.err = Nil) <=> (Failed(last.calls) = {})
           /\ \A i \in Failed(last.calls) : last.err = last.calls[i].err
           /\ (last.err # Nil /\ last.op \in {"ListTarget", "Verify"})
                 => (last.list = NilList /\ last.target = NilTarget)

C7_Witness ==
    /\ last.op = "SignImage"
    /\ last.calls[1].err = "SigningError"
    /\ last.err = "SigningError"

C9_EveryFailureLoggedOnce ==
    last.op \in AllOps => Len(last.logs) = Cardinality(Failed(last.calls))

\* C10: one call of an adapter method invokes each collaborator at most once
\* (TrustPush: pushImage once, then pushTrustedReference at most once; any
\* other method: its one trust-service function once) and leaves the
\* adapter's fields as they were.
C10_NoRetries ==
    [][last'.op \in AdapterOps
         => /\ repo' = repo
            /\ IF last'.op = "TrustPush"
               THEN /\ Len(last'.calls) \in {1, 2}
                    /\ last'.calls[1].fn = "pushImage"
                    /\ Len(last'.calls) = 2 => last'.calls[2].fn = "pushTrustedReference"
               ELSE /\ Len(last'.calls) = 1
                    /\ last'.calls[1].fn = ForwardsTo(last'.op)]_vars

C10_Witness ==
    /\ last.op = "TrustPush"
    /\ Len(last.calls) = 1
    /\ last.calls[1].fn = "pushImage"
    /\ last.calls[1].err # Nil
    /\ Constructed

====
